---- MODULE Spec2Model ----
(***************************************************************************)
(* Model of pep_sphinx_extensions/pep_processor/transforms/pep_headers.py: *)
(* the PEPHeaders transform (apply) and the mailing-list thread label      *)
(* classifier (_process_list_url, _pretty_thread).                         *)
(*                                                                         *)
(* A Python str is a sequence of one-character strings, so that lower(),   *)
(* strip(), split(), removesuffix(), title(), replace(), re.split() and    *)
(* int() are computed character by character as CPython computes them.     *)
(***************************************************************************)
EXTENDS Integers, Sequences, FiniteSets, TLC

VARIABLES
    source,      \* self.document["source"], the file name of the document
    doc,         \* self.document: the sequence of top-level nodes
    pendings,    \* nodes registered with self.document.note_pending
    pc,          \* position of the apply() call
    outcome,     \* how the apply() call ended ("running" until it ends)
    idx,         \* 1-based position of the per-field loop in the header
    to_remove,   \* fields_to_remove: positions of the fields marked so far
    doc0,        \* the document as it was handed to apply()
    text,        \* the text handed to _pretty_thread
    label,       \* what _pretty_thread(text) gave
    label2,      \* what _pretty_thread gave for the label it produced
    upc          \* position of the classifier run

vars == <<source, doc, pendings, pc, outcome, idx, to_remove, doc0,
          text, label, label2, upc>>

applyVars == <<source, doc, pendings, pc, outcome, idx, to_remove, doc0>>
urlVars == <<text, label, label2, upc>>

----------------------------------------------------------------------------
(* Bounds of the model *)

\* path segments appended to a classifier input
MaxSegs == 4
\* header fields after "pep" and "title"
MaxExtra == 3

----------------------------------------------------------------------------
(* Python str primitives *)

Lowers == <<"a", "b", "c", "d", "e", "f", "g", "h", "i", "j", "k", "l", "m",
            "n", "o", "p", "q", "r", "s", "t", "u", "v", "w", "x", "y", "z">>
Uppers == <<"A", "B", "C", "D", "E", "F", "G", "H", "I", "J", "K", "L", "M",
            "N", "O", "P", "Q", "R", "S", "T", "U", "V", "W", "X", "Y", "Z">>
Digits == <<"0", "1", "2", "3", "4", "5", "6", "7", "8", "9">>
Whitespace == {" ", "\t", "\n"}

IsLower(c) == \E i \in DOMAIN Lowers : Lowers[i] = c
IsUpper(c) == \E i \in DOMAIN Uppers : Uppers[i] = c
IsCased(c) == IsLower(c) \/ IsUpper(c)
IsDigit(c) == \E i \in DOMAIN Digits : Digits[i] = c
DigitVal(c) == (CHOOSE i \in DOMAIN Digits : Digits[i] = c) - 1

LowerChar(c) == IF IsUpper(c) THEN Lowers[CHOOSE i \in DOMAIN Uppers : Uppers[i] = c] ELSE c
UpperChar(c) == IF IsLower(c) THEN Uppers[CHOOSE i \in DOMAIN Lowers : Lowers[i] = c] ELSE c

\* str.lower()
Lower(s) == [i \in DOMAIN s |-> LowerChar(s[i])]

\* str.title(): a cased character is upper-cased when the character before it
\* is not cased, lower-cased otherwise
Title(s) ==
    [i \in DOMAIN s |->
        IF i > 1 /\ IsCased(s[i - 1]) THEN LowerChar(s[i]) ELSE UpperChar(s[i])]

\* str.strip(chars) for a set of characters
RECURSIVE LStrip(_, _)
LStrip(s, cs) == IF s # <<>> /\ Head(s) \in cs THEN LStrip(Tail(s), cs) ELSE s
RECURSIVE RStrip(_, _)
RStrip(s, cs) ==
    IF s # <<>> /\ s[Len(s)] \in cs THEN RStrip(SubSeq(s, 1, Len(s) - 1), cs) ELSE s
Strip(s, cs) == RStrip(LStrip(s, cs), cs)

\* str.startswith / str.endswith
StartsWith(s, p) == Len(s) >= Len(p) /\ SubSeq(s, 1, Len(p)) = p
EndsWith(s, p) == Len(s) >= Len(p) /\ SubSeq(s, Len(s) - Len(p) + 1, Len(s)) = p

\* str.removesuffix(suffix)
RemoveSuffix(s, suf) ==
    IF suf # <<>> /\ EndsWith(s, suf) THEN SubSeq(s, 1, Len(s) - Len(suf)) ELSE s

\* str.split(sep) for a one-character separator: never an empty list
RECURSIVE SplitFrom(_, _, _)
SplitFrom(s, sep, cur) ==
    IF s = <<>> THEN <<cur>>
    ELSE IF Head(s) = sep THEN <<cur>> \o SplitFrom(Tail(s), sep, <<>>)
    ELSE SplitFrom(Tail(s), sep, Append(cur, Head(s)))
Split(s, sep) == SplitFrom(s, sep, <<>>)

\* str.replace(old, new): the non-overlapping occurrences, left to right
RECURSIVE Replace(_, _, _)
Replace(s, old, new) ==
    IF s = <<>> THEN <<>>
    ELSE IF StartsWith(s, old)
         THEN new \o Replace(SubSeq(s, Len(old) + 1, Len(s)), old, new)
    ELSE <<Head(s)>> \o Replace(Tail(s), old, new)

\* x in list
Contains(parts, x) == \E i \in DOMAIN parts : parts[i] = x
\* list.index(x), 0-based as in Python (x is in the list)
IndexOf(parts, x) ==
    (CHOOSE i \in DOMAIN parts : parts[i] = x /\ \A j \in 1..(i - 1) : parts[j] # x) - 1
\* list[i] with a 0-based index i < len(list)
At(parts, i) == parts[i + 1]

\* "/".join(segments)
RECURSIVE JoinSlash(_)
JoinSlash(segs) ==
    IF segs = <<>> THEN <<>>
    ELSE IF Len(segs) = 1 THEN segs[1]
    ELSE segs[1] \o <<"/">> \o JoinSlash(Tail(segs))

----------------------------------------------------------------------------
(* String literals of the source *)

MAIL_PREFIX == <<"h", "t", "t", "p", "s", ":", "/", "/", "m", "a", "i", "l", ".", "p", "y", "t", "h", "o", "n", ".", "o", "r", "g">>
ARCHIVES == <<"a", "r", "c", "h", "i", "v", "e", "s">>
MAILMAN3 == <<"m", "a", "i", "l", "m", "a", "n", "3">>
PIPERMAIL == <<"p", "i", "p", "e", "r", "m", "a", "i", "l">>
LISTINFO == <<"l", "i", "s", "t", "i", "n", "f", "o">>
AT_PYTHON_ORG == <<"@", "p", "y", "t", "h", "o", "n", ".", "o", "r", "g">>
DOT_PYTHON_ORG == <<".", "p", "y", "t", "h", "o", "n", ".", "o", "r", "g">>
KIND_LIST == <<"l", "i", "s", "t">>
KIND_MESSAGE == <<"m", "e", "s", "s", "a", "g", "e">>
KIND_THREAD == <<"t", "h", "r", "e", "a", "d">>
SIG_TITLE == <<"S", "i", "g">>
SIG_UPPER == <<"S", "I", "G">>

----------------------------------------------------------------------------
(* _process_list_url and _pretty_thread *)

\* the segment of the list name when parts holds one at 0-based position i,
\* IndexError when parts[i] is out of range
ListNameAt(parts, i, suffix, url_type) ==
    IF i < Len(parts)
    THEN [exc |-> "none",
          list_name |-> Replace(Title(RemoveSuffix(At(parts, i), suffix)), SIG_TITLE, SIG_UPPER),
          url_type |-> url_type]
    ELSE [exc |-> "IndexError"]

\* _process_list_url(list_url): (list_name, url_type), or the exception raised
process_list_url(list_url) ==
    LET parts == Split(Strip(Strip(Lower(list_url), Whitespace), {"/"}), "/")
    IN  IF Contains(parts, ARCHIVES)
        THEN ListNameAt(parts, IndexOf(parts, ARCHIVES) + 2, AT_PYTHON_ORG,
                        IF Len(parts) > 6 /\ At(parts, 6) \in {KIND_MESSAGE, KIND_THREAD}
                        THEN At(parts, 6) ELSE KIND_LIST)
        ELSE IF Contains(parts, MAILMAN3)
        THEN ListNameAt(parts, IndexOf(parts, MAILMAN3) + 2, DOT_PYTHON_ORG, KIND_LIST)
        ELSE IF Contains(parts, PIPERMAIL)
        THEN ListNameAt(parts, IndexOf(parts, PIPERMAIL) + 1, <<>>,
                        IF Len(parts) > 6 THEN KIND_MESSAGE ELSE KIND_LIST)
        ELSE IF Contains(parts, LISTINFO)
        THEN ListNameAt(parts, IndexOf(parts, LISTINFO) + 1, <<>>, KIND_LIST)
        ELSE [exc |-> "ValueError"]

\* the normalised text returned when the text is no mailing-list link
pretty_thread_normalised(t) ==
    LET r == process_list_url(t)
    IN  IF r.exc = "ValueError" THEN [exc |-> "none", text |-> Strip(Lower(t), Whitespace)]
        ELSE IF r.exc = "none"
        THEN [exc |-> "none", text |-> r.list_name \o <<" ">> \o r.url_type]
        ELSE [exc |-> r.exc]

\* _pretty_thread(text): the text returned, or the exception that escapes
pretty_thread(t) ==
    LET r == process_list_url(t)
    IN  IF r.exc = "ValueError" THEN [exc |-> "none", text |-> t]
        ELSE IF r.exc = "none"
        THEN [exc |-> "none", text |-> r.list_name \o <<" ">> \o r.url_type]
        ELSE [exc |-> r.exc]

----------------------------------------------------------------------------
(* Inputs of the classifier: an optional "https://mail.python.org" prefix,
   up to MaxSegs path segments and an optional trailing "/" *)

SegSigName == <<"a", "-", "S", "i", "g", "@", "p", "y", "t", "h", "o", "n", ".", "o", "r", "g">>
SegIdeasName == <<"I", "d", "e", "a", "s", ".", "p", "y", "t", "h", "o", "n", ".", "o", "r", "g">>

SegVocab == {ARCHIVES, MAILMAN3, PIPERMAIL, LISTINFO, KIND_LIST, KIND_THREAD,
             SegSigName, SegIdeasName}

SeqsUpTo(S, n) == UNION {[1..k -> S] : k \in 0..n}

UrlText(withPrefix, segs, trail) ==
    JoinSlash((IF withPrefix THEN <<MAIL_PREFIX>> ELSE <<>>) \o segs) \o trail

UrlInputs ==
    {UrlText(w, segs, tr) :
        w \in BOOLEAN, segs \in SeqsUpTo(SegVocab, MaxSegs), tr \in {<<>>, <<"/">>}}

NotRun == [exc |-> "not_run"]

----------------------------------------------------------------------------
(* The classifier run: _pretty_thread on a text, then on the text it gave *)

UrlInit ==
    /\ text \in UrlInputs
    /\ label = NotRun
    /\ label2 = NotRun
    /\ upc = "input"

\* node[0] = _pretty_thread(node[0])
Classify ==
    /\ upc = "input"
    /\ label' = pretty_thread(text)
    /\ upc' = "classified"
    /\ UNCHANGED <<text, label2>>

\* _pretty_thread on the text a run produced
Reclassify ==
    /\ upc = "classified"
    /\ label.exc = "none"
    /\ label2' = pretty_thread(label.text)
    /\ upc' = "reclassified"
    /\ UNCHANGED <<text, label>>

----------------------------------------------------------------------------
(* int(), str.format and re.split as apply() uses them *)

\* the value of a run of decimal digits and single underscores
RECURSIVE DigitsValue(_, _)
DigitsValue(s, acc) ==
    IF s = <<>> THEN acc
    ELSE IF Head(s) = "_" THEN DigitsValue(Tail(s), acc)
    ELSE DigitsValue(Tail(s), 10 * acc + DigitVal(Head(s)))

\* int(value): surrounding whitespace is dropped, one sign is allowed, the
\* digits may be grouped by single underscores; anything else is ValueError
python_int(value) ==
    LET t == Strip(value, Whitespace)
        neg == t # <<>> /\ Head(t) = "-"
        d == IF t # <<>> /\ Head(t) \in {"+", "-"} THEN Tail(t) ELSE t
        wellFormed ==
            /\ d # <<>>
            /\ \A i \in DOMAIN d : IsDigit(d[i]) \/ d[i] = "_"
            /\ IsDigit(d[1]) /\ IsDigit(d[Len(d)])
            /\ \A i \in 1..(Len(d) - 1) : ~(d[i] = "_" /\ d[i + 1] = "_")
    IN  IF wellFormed
        THEN [ok |-> TRUE, val |-> IF neg THEN 0 - DigitsValue(d, 0) ELSE DigitsValue(d, 0)]
        ELSE [ok |-> FALSE, val |-> 0]

\* str(n) for an integer n
RECURSIVE NatStr(_)
NatStr(n) == IF n < 10 THEN <<Digits[n + 1]>> ELSE NatStr(n \div 10) \o <<Digits[(n % 10) + 1]>>
IntStr(n) == IF n < 0 THEN <<"-">> \o NatStr(0 - n) ELSE NatStr(n)

\* format spec "0>w": right-aligned in w characters, filled with "0"
RECURSIVE PadLeft(_, _)
PadLeft(s, w) == IF Len(s) >= w THEN s ELSE PadLeft(<<"0">> \o s, w)

PEP_URL_PREFIX == <<"p", "e", "p", "-">>
PEP_URL_SUFFIX == <<"/">>

\* self.document.settings.pep_url.format(n) for the template "pep-{:0>4}/"
pep_url_format(n) == PEP_URL_PREFIX \o PadLeft(IntStr(n), 4) \o PEP_URL_SUFFIX

\* re.split(r",?\s+", s): a separator is a run of whitespace, with the comma
\* right before it when there is one; a comma not followed by whitespace
\* is no separator
RECURSIVE ReSplitFrom(_, _)
ReSplitFrom(s, cur) ==
    IF s = <<>> THEN <<cur>>
    ELSE IF Head(s) = "," /\ Len(s) >= 2 /\ s[2] \in Whitespace
         THEN <<cur>> \o ReSplitFrom(LStrip(Tail(s), Whitespace), <<>>)
    ELSE IF Head(s) \in Whitespace
         THEN <<cur>> \o ReSplitFrom(LStrip(s, Whitespace), <<>>)
    ELSE ReSplitFrom(Tail(s), Append(cur, Head(s)))
re_split(s) == ReSplitFrom(s, <<>>)

----------------------------------------------------------------------------
(* The document tree (docutils nodes) *)

\* inline nodes of a paragraph
TextNode(t) == [kind |-> "Text", text |-> t, has_refuri |-> FALSE, refuri |-> <<>>]
Reference(uri, t) == [kind |-> "reference", text |-> t, has_refuri |-> TRUE, refuri |-> uri]
\* a reference that names its target (`name`_): it has no refuri attribute
NamedReference(t) == [kind |-> "reference", text |-> t, has_refuri |-> FALSE, refuri |-> <<>>]

\* elements of a field body
Paragraph(children) == [kind |-> "paragraph", children |-> children]
BulletList(t) == [kind |-> "bullet_list", children |-> <<TextNode(t)>>]

\* a field: its field_name text and the children of its field_body; id tells
\* the node objects apart
Field(id, name, body) == [id |-> id, name |-> name, body |-> body]

\* top-level nodes of the document
FieldList(classes, fields) == [kind |-> "field_list", classes |-> classes, fields |-> fields]
BodyParagraph == [kind |-> "paragraph", classes |-> {}, fields |-> <<>>]
Pending == [kind |-> "pending", classes |-> {}, fields |-> <<>>]

\* Node.astext() of a paragraph, of a field body
RECURSIVE ConcatTexts(_)
ConcatTexts(children) ==
    IF children = <<>> THEN <<>> ELSE Head(children).text \o ConcatTexts(Tail(children))
RECURSIVE BodyText(_)
BodyText(body) ==
    IF body = <<>> THEN <<>>
    ELSE IF Len(body) = 1 THEN ConcatTexts(body[1].children)
    ELSE ConcatTexts(body[1].children) \o <<"\n", "\n">> \o BodyText(Tail(body))

----------------------------------------------------------------------------
(* Field names apply() knows, lower-cased *)

N_pep == <<"p", "e", "p">>
N_title == <<"t", "i", "t", "l", "e">>
N_author == <<"a", "u", "t", "h", "o", "r">>
N_bdfl_delegate == <<"b", "d", "f", "l", "-", "d", "e", "l", "e", "g", "a", "t", "e">>
N_pep_delegate == <<"p", "e", "p", "-", "d", "e", "l", "e", "g", "a", "t", "e">>
N_sponsor == <<"s", "p", "o", "n", "s", "o", "r">>
N_discussions_to == <<"d", "i", "s", "c", "u", "s", "s", "i", "o", "n", "s", "-", "t", "o">>
N_resolution == <<"r", "e", "s", "o", "l", "u", "t", "i", "o", "n">>
N_replaces == <<"r", "e", "p", "l", "a", "c", "e", "s">>
N_superseded_by == <<"s", "u", "p", "e", "r", "s", "e", "d", "e", "d", "-", "b", "y">>
N_requires == <<"r", "e", "q", "u", "i", "r", "e", "s">>
N_last_modified == <<"l", "a", "s", "t", "-", "m", "o", "d", "i", "f", "i", "e", "d">>
N_content_type == <<"c", "o", "n", "t", "e", "n", "t", "-", "t", "y", "p", "e">>
N_version == <<"v", "e", "r", "s", "i", "o", "n">>
PEP_PATTERN_PREFIX == <<"p", "e", "p", "-">>

MaskedNames == {N_author, N_bdfl_delegate, N_pep_delegate, N_sponsor}
ThreadNames == {N_discussions_to, N_resolution}
PepListNames == {N_replaces, N_superseded_by, N_requires}
RemovedNames == {N_last_modified, N_content_type, N_version}

----------------------------------------------------------------------------
(* The rewrites of one field's paragraph *)

\* _mask_email(node): the replacement of a reference, its address rendered
\* "user at domain"
mask_email(node) ==
    [kind |-> "raw", text |-> Replace(node.text, <<"@">>, <<" ", "a", "t", " ">>),
     has_refuri |-> FALSE, refuri |-> <<>>]

\* for node in para: node.replace_self(_mask_email(node)) for the references
MaskEmails(children) ==
    [i \in DOMAIN children |->
        IF children[i].kind = "reference" THEN mask_email(children[i]) ELSE children[i]]

\* for node in para: node[0] = _pretty_thread(node[0]) for the references
\* whose refuri starts with "https://mail.python.org". The nodes are
\* rewritten in order; an exception leaves the later nodes as they were.
RECURSIVE PrettyThreads(_)
PrettyThreads(children) ==
    IF children = <<>> THEN [children |-> <<>>, exc |-> "none"]
    ELSE
      LET node == Head(children)
          rest == PrettyThreads(Tail(children))
          pretty == pretty_thread(node.text)
      IN  IF node.kind # "reference"
          THEN [children |-> <<node>> \o rest.children, exc |-> rest.exc]
          ELSE IF ~node.has_refuri
          THEN [children |-> children, exc |-> "KeyError"]
          ELSE IF ~StartsWith(node.refuri, MAIL_PREFIX)
          THEN [children |-> <<node>> \o rest.children, exc |-> rest.exc]
          ELSE IF pretty.exc # "none"
          THEN [children |-> children, exc |-> pretty.exc]
          ELSE [children |-> <<[node EXCEPT !.text = pretty.text]>> \o rest.children,
                exc |-> rest.exc]

\* new_body: a reference per token and ", " after each
RECURSIVE PepLinks(_)
PepLinks(tokens) ==
    IF tokens = <<>> THEN <<>>
    ELSE <<Reference(pep_url_format(python_int(Head(tokens)).val), Head(tokens)),
           TextNode(<<",", " ">>)>> \o PepLinks(Tail(tokens))

\* the replaces/superseded-by/requires rewrite: para[:] = new_body[:-1], or
\* the ValueError of int(pep_str), raised before para is assigned
PepList(body) ==
    LET tokens == re_split(BodyText(body))
        new_body == PepLinks(tokens)
    IN  IF \E i \in DOMAIN tokens : ~python_int(tokens[i]).ok
        THEN [children |-> body[1].children, exc |-> "ValueError"]
        ELSE [children |-> SubSeq(new_body, 1, Len(new_body) - 1), exc |-> "none"]

----------------------------------------------------------------------------
(* PEPHeaders.apply, step by step *)

Running == [kind |-> "running", msg |-> ""]
Returned(msg) == [kind |-> "return", msg |-> msg]
PEPParsingError(msg) == [kind |-> "PEPParsingError", msg |-> msg]
Uncaught(kind) == [kind |-> kind, msg |-> ""]

\* a match tried on every component of the path, not only on the last
path_match_any_component(src) ==
    \E c \in {Split(src, "/")[i] : i \in DOMAIN Split(src, "/")} :
        StartsWith(c, PEP_PATTERN_PREFIX)

\* Path(source).match("pep-*"): the last component of the path starts with
\* "pep-" (POSIX paths: the match is case-sensitive)
path_match_pep(src) ==
    LET comps == SelectSeq(Split(src, "/"), LAMBDA c : c # <<>> /\ c # <<".">>)
    IN  comps # <<>> /\ StartsWith(comps[Len(comps)], PEP_PATTERN_PREFIX)

header == doc[1]

\* if not Path(self.document["source"]).match("pep-*"): return
CheckSource ==
    /\ pc = "start"
    /\ IF ~path_match_pep(source)
       THEN pc' = "done" /\ outcome' = Returned("not a PEP file")
       ELSE pc' = "check_empty" /\ UNCHANGED outcome
    /\ UNCHANGED <<source, doc, pendings, idx, to_remove, doc0, urlVars>>

\* if not len(self.document): raise
CheckEmpty ==
    /\ pc = "check_empty"
    /\ IF Len(doc) = 0
       THEN pc' = "done" /\ outcome' = PEPParsingError("Document tree is empty.")
       ELSE pc' = "check_header" /\ UNCHANGED outcome
    /\ UNCHANGED <<source, doc, pendings, idx, to_remove, doc0, urlVars>>

\* header = self.document[0]; it must be an rfc2822 field list
CheckHeader ==
    /\ pc = "check_header"
    /\ IF header.kind # "field_list" \/ "rfc2822" \notin header.classes
       THEN pc' = "done"
            /\ outcome' = PEPParsingError("Document does not begin with an RFC-2822 header")
       ELSE pc' = "check_pep" /\ UNCHANGED outcome
    /\ UNCHANGED <<source, doc, pendings, idx, to_remove, doc0, urlVars>>

\* pep_field = header[0]; its name must be "pep"
CheckPepField ==
    /\ pc = "check_pep"
    /\ IF Len(header.fields) = 0
       THEN pc' = "done" /\ outcome' = Uncaught("IndexError")
       ELSE IF Lower(header.fields[1].name) # N_pep
       THEN pc' = "done"
            /\ outcome' = PEPParsingError("Document does not contain an RFC-2822 'PEP' header!")
       ELSE pc' = "pep_number" /\ UNCHANGED outcome
    /\ UNCHANGED <<source, doc, pendings, idx, to_remove, doc0, urlVars>>

\* the pending node inserted at position 0, before the header
insert_pending_first(d) == <<Pending>> \o d

\* document.insert(1, pending); document.note_pending(pending)
insert_pending(d) == <<d[1], Pending>> \o Tail(d)

\* pep_num = int(value), and the pending PEPZero node when pep_num == 0
ExtractPepNumber ==
    /\ pc = "pep_number"
    /\ LET pep_num == python_int(BodyText(header.fields[1].body))
       IN  IF ~pep_num.ok
           THEN /\ pc' = "done"
                /\ outcome' = PEPParsingError("'PEP' header must contain an integer.")
                /\ UNCHANGED <<doc, pendings>>
           ELSE /\ pc' = "check_title"
                /\ UNCHANGED outcome
                /\ IF pep_num.val = 0
                   THEN doc' = insert_pending(doc) /\ pendings' = Append(pendings, Pending)
                   ELSE UNCHANGED <<doc, pendings>>
    /\ UNCHANGED <<source, idx, to_remove, doc0, urlVars>>

\* if len(header) < 2 or header[1][0].astext().lower() != "title": raise
CheckTitle ==
    /\ pc = "check_title"
    /\ IF Len(header.fields) < 2 \/ Lower(header.fields[2].name) # N_title
       THEN pc' = "done" /\ outcome' = PEPParsingError("No title!")
       ELSE pc' = "fields" /\ UNCHANGED outcome
    /\ UNCHANGED <<source, doc, pendings, idx, to_remove, doc0, urlVars>>

\* the paragraph of field i replaced by one with the given children
WithChildren(d, i, children) == [d EXCEPT ![1].fields[i].body[1].children = children]

\* the field removed from the header at once, inside the loop
remove_unneeded_now(d, marked, i) ==
    [doc |-> [d EXCEPT ![1].fields =
                 SubSeq(d[1].fields, 1, i - 1) \o SubSeq(d[1].fields, i + 1, Len(d[1].fields))],
     to_remove |-> marked]

\* fields_to_remove.append(field): the field is noted, the tree is left alone
mark_unneeded(d, marked, i) == [doc |-> d, to_remove |-> Append(marked, i)]

\* one pass of "for field in header"
ProcessField ==
    /\ pc = "fields"
    /\ idx <= Len(header.fields)
    /\ LET field == header.fields[idx]
           name == Lower(field.name)
           body == field.body
           threads == PrettyThreads(body[1].children)
           links == PepList(body)
       IN  IF Len(body) = 0
           THEN /\ idx' = idx + 1
                /\ UNCHANGED <<doc, to_remove, pc, outcome>>
           ELSE IF Len(body) > 1
           THEN /\ pc' = "done"
                /\ outcome' = PEPParsingError("PEP header field body contains multiple elements")
                /\ UNCHANGED <<doc, to_remove, idx>>
           ELSE IF body[1].kind # "paragraph"
           THEN /\ pc' = "done"
                /\ outcome' = PEPParsingError("PEP header field body may only contain a single paragraph")
                /\ UNCHANGED <<doc, to_remove, idx>>
           ELSE IF name \in MaskedNames
           THEN /\ doc' = WithChildren(doc, idx, MaskEmails(body[1].children))
                /\ idx' = idx + 1
                /\ UNCHANGED <<to_remove, pc, outcome>>
           ELSE IF name \in ThreadNames
           THEN /\ doc' = WithChildren(doc, idx, threads.children)
                /\ IF threads.exc = "none"
                   THEN idx' = idx + 1 /\ UNCHANGED <<pc, outcome>>
                   ELSE pc' = "done" /\ outcome' = Uncaught(threads.exc) /\ UNCHANGED idx
                /\ UNCHANGED to_remove
           ELSE IF name \in PepListNames
           THEN /\ doc' = WithChildren(doc, idx, links.children)
                /\ IF links.exc = "none"
                   THEN idx' = idx + 1 /\ UNCHANGED <<pc, outcome>>
                   ELSE pc' = "done" /\ outcome' = Uncaught(links.exc) /\ UNCHANGED idx
                /\ UNCHANGED to_remove
           ELSE IF name \in RemovedNames
           THEN /\ doc' = mark_unneeded(doc, to_remove, idx).doc
                /\ to_remove' = mark_unneeded(doc, to_remove, idx).to_remove
                /\ idx' = idx + 1
                /\ UNCHANGED <<pc, outcome>>
           ELSE /\ idx' = idx + 1
                /\ UNCHANGED <<doc, to_remove, pc, outcome>>
    /\ UNCHANGED <<source, pendings, doc0, urlVars>>

\* header without the fields at the marked positions
RemoveMarked(fields, marked) ==
    SelectSeq([i \in DOMAIN fields |-> [pos |-> i, field |-> fields[i]]],
              LAMBDA e : \A k \in DOMAIN marked : marked[k] # e.pos)

\* for field in fields_to_remove: field.parent.remove(field); then apply returns
RemoveFields ==
    /\ pc = "fields"
    /\ idx > Len(header.fields)
    /\ LET kept == RemoveMarked(header.fields, to_remove)
       IN  doc' = [doc EXCEPT ![1].fields = [i \in DOMAIN kept |-> kept[i].field]]
    /\ pc' = "done"
    /\ outcome' = Returned("done")
    /\ UNCHANGED <<source, pendings, idx, to_remove, doc0, urlVars>>

----------------------------------------------------------------------------
(* Documents handed to apply() *)

SRC_PEP == <<"p", "e", "p", "s", "/", "p", "e", "p", "-", "0", "0", "0", "8", ".", "r", "s", "t">>
SRC_INDEX == <<"p", "e", "p", "s", "/", "i", "n", "d", "e", "x", ".", "r", "s", "t">>
SRC_PEP_DIR == <<"p", "e", "p", "-", "8", "/", "r", "e", "a", "d", "m", "e", ".", "r", "s", "t">>
Sources == {SRC_PEP, SRC_INDEX, SRC_PEP_DIR}

H_PEP == <<"P", "E", "P">>
H_pep == <<"p", "e", "p">>
H_Title == <<"T", "i", "t", "l", "e">>
H_Status == <<"S", "t", "a", "t", "u", "s">>
H_Type == <<"T", "y", "p", "e">>
H_Version == <<"V", "e", "r", "s", "i", "o", "n">>
H_Last_Modified == <<"L", "a", "s", "t", "-", "M", "o", "d", "i", "f", "i", "e", "d">>
H_Author == <<"A", "u", "t", "h", "o", "r">>
H_Discussions_To == <<"D", "i", "s", "c", "u", "s", "s", "i", "o", "n", "s", "-", "T", "o">>
H_Resolution == <<"R", "e", "s", "o", "l", "u", "t", "i", "o", "n">>
H_Replaces == <<"R", "e", "p", "l", "a", "c", "e", "s">>
H_Requires == <<"R", "e", "q", "u", "i", "r", "e", "s">>
H_Superseded_By == <<"S", "u", "p", "e", "r", "s", "e", "d", "e", "d", "-", "B", "y">>

V_style == <<"S", "t", "y", "l", "e">>
V_draft == <<"D", "r", "a", "f", "t">>
V_comma_space == <<"1", "0", "1", ",", " ", "1", "0", "2">>
V_comma == <<"1", "0", "1", ",", "1", "0", "2">>
V_space == <<"7", " ", "8">>
V_name == <<"A", "n", "n", " ">>
V_mail == <<"a", "@", "b", ".", "c">>
V_mailto == <<"m", "a", "i", "l", "t", "o", ":", "a", "@", "b", ".", "c">>
V_here == <<"h", "e", "r", "e">>

\* https://mail.python.org/archives/list/a-Sig@python.org/thread/x
U_thread == JoinSlash(<<MAIL_PREFIX, ARCHIVES, KIND_LIST, SegSigName, KIND_THREAD, <<"x">>>>)
\* https://mail.python.org/archives
U_short == JoinSlash(<<MAIL_PREFIX, ARCHIVES>>)
\* https://x.org/listinfo/ideas
U_other_host == JoinSlash(<<<<"h", "t", "t", "p", "s", ":">>, <<>>, <<"x", ".", "o", "r", "g">>,
                            LISTINFO, <<"i", "d", "e", "a", "s">>>>)
\* https://mail.python.org/x
U_unknown == JoinSlash(<<MAIL_PREFIX, <<"x">>>>)

Plain(t) == <<Paragraph(<<TextNode(t)>>)>>
Entry(name, body) == [name |-> name, body |-> body]

PepZeroField == Entry(H_PEP, Plain(<<"0">>))
PepEightField == Entry(H_pep, Plain(<<"8">>))
TitleField == Entry(H_Title, Plain(V_style))

FirstFields == {PepZeroField, PepEightField, Entry(H_PEP, Plain(<<"3", "k">>)), TitleField}

SecondFields == {TitleField, Entry(H_Status, Plain(V_draft))}

ExtraFields ==
    {Entry(H_Version, Plain(<<"1">>)),
     Entry(H_Last_Modified, <<>>),
     Entry(H_Author, <<Paragraph(<<TextNode(V_name), Reference(V_mailto, V_mail)>>)>>),
     Entry(H_Discussions_To,
           <<Paragraph(<<Reference(U_thread, U_thread), TextNode(<<",", " ">>),
                         Reference(U_other_host, U_other_host), TextNode(<<",", " ">>),
                         Reference(U_unknown, U_unknown)>>)>>),
     Entry(H_Resolution, <<Paragraph(<<Reference(U_thread, V_here)>>)>>),
     Entry(H_Resolution, <<Paragraph(<<Reference(U_short, U_short)>>)>>),
     Entry(H_Resolution, <<Paragraph(<<NamedReference(V_here)>>)>>),
     Entry(H_Replaces, Plain(V_comma_space)),
     Entry(H_Requires, Plain(V_comma)),
     Entry(H_Superseded_By, Plain(V_space)),
     Entry(H_Status, <<Paragraph(<<TextNode(V_draft)>>), Paragraph(<<TextNode(V_draft)>>)>>),
     Entry(H_Type, <<BulletList(V_draft)>>)}

MkFields(entries) == [i \in DOMAIN entries |-> Field(i, entries[i].name, entries[i].body)]

\* no field, one field, every pair of first fields with at most one more
\* field, and the headers that pass the checks with up to MaxExtra more fields
Headers ==
    {<<>>}
    \cup {MkFields(<<f>>) : f \in FirstFields}
    \cup {MkFields(<<f, s>> \o extra) :
            f \in FirstFields, s \in SecondFields, extra \in SeqsUpTo(ExtraFields, 1)}
    \cup {MkFields(<<f, TitleField>> \o extra) :
            f \in {PepZeroField, PepEightField}, extra \in SeqsUpTo(ExtraFields, MaxExtra)}

Documents ==
    {<<>>, <<BodyParagraph>>,
     <<FieldList({}, MkFields(<<Entry(H_PEP, Plain(<<"8">>)), Entry(H_Title, Plain(V_style))>>)),
       BodyParagraph>>}
    \cup {<<FieldList({"rfc2822"}, h), BodyParagraph>> : h \in Headers}

----------------------------------------------------------------------------
(* Specifications *)

UrlIdle == text = <<>> /\ label = NotRun /\ label2 = NotRun /\ upc = "off"

ApplyIdle ==
    /\ source = SRC_INDEX /\ doc = <<>> /\ doc0 = <<>> /\ pendings = <<>>
    /\ pc = "off" /\ outcome = Running /\ idx = 1 /\ to_remove = <<>>

\* one apply() call on one document
Init ==
    /\ source \in Sources
    /\ doc \in Documents
    /\ doc0 = doc
    /\ pendings = <<>>
    /\ pc = "start"
    /\ outcome = Running
    /\ idx = 1
    /\ to_remove = <<>>
    /\ UrlIdle

Next ==
    \/ CheckSource
    \/ CheckEmpty
    \/ CheckHeader
    \/ CheckPepField
    \/ ExtractPepNumber
    \/ CheckTitle
    \/ ProcessField
    \/ RemoveFields

Spec == Init /\ [][Next]_vars

\* one classifier run on one text
InitUrl == UrlInit /\ ApplyIdle

NextUrl ==
    \/ Classify /\ UNCHANGED applyVars
    \/ Reclassify /\ UNCHANGED applyVars

SpecUrl == InitUrl /\ [][NextUrl]_vars

----------------------------------------------------------------------------
(* Properties *)

FieldIds(fields) == [i \in DOMAIN fields |-> fields[i].id]
FieldNames(fields) == [i \in DOMAIN fields |-> fields[i].name]
PendingNodes(d) == Cardinality({i \in DOMAIN d : d[i].kind = "pending"})
\* the fields of the header the document was handed over with
fields0 == IF Len(doc0) = 0 THEN <<>> ELSE doc0[1].fields
\* the field of the current header that was at position k at the start
FieldById(k) == header.fields[CHOOSE i \in DOMAIN header.fields : header.fields[i].id = k]

\* the file names among Sources that do not match "pep-*"
NonPepSources == {SRC_INDEX, SRC_PEP_DIR}

\* C1: for a document whose source file name does not match "pep-*", apply
\* raises nothing and leaves the tree as it was: no field rewritten, no field
\* removed or marked, no pending node registered, whatever the tree holds.
C1_NoOpForNonPep ==
    source \in NonPepSources =>
        /\ doc = doc0
        /\ pendings = <<>>
        /\ to_remove = <<>>
        /\ pc \in {"start", "done"}
        /\ outcome = (IF pc = "done" THEN Returned("not a PEP file") ELSE Running)

\* apply has returned on a non-PEP file whose header holds a field it would remove
C1_Witness ==
    /\ pc = "done"
    /\ source = SRC_PEP_DIR
    /\ \E i \in DOMAIN fields0 : Lower(fields0[i].name) \in RemovedNames
    /\ doc = doc0

\* the header the claims call well-formed
WellFormed(d) ==
    /\ Len(d) > 0
    /\ d[1].kind = "field_list" /\ "rfc2822" \in d[1].classes
    /\ Len(d[1].fields) >= 2
    /\ Lower(d[1].fields[1].name) = N_pep
    /\ python_int(BodyText(d[1].fields[1].body)).ok
    /\ Lower(d[1].fields[2].name) = N_title
    /\ \A i \in DOMAIN d[1].fields :
          LET body == d[1].fields[i].body
          IN  body = <<>> \/ (Len(body) = 1 /\ body[1].kind = "paragraph")

\* C2: after apply completes on a well-formed header, no field named
\* last-modified, content-type or version is left, and the fields left are
\* the other input fields in their original order.
C2_RemovedFieldsAbsent ==
    (source = SRC_PEP /\ pc = "done" /\ outcome = Returned("done") /\ WellFormed(doc0)) =>
        /\ \A i \in DOMAIN header.fields : Lower(header.fields[i].name) \notin RemovedNames
        /\ FieldIds(header.fields) =
              SelectSeq(FieldIds(fields0), LAMBDA k : Lower(fields0[k].name) \notin RemovedNames)

\* the document passes the checks before the PEP 0 test and its number is 0
FirstValueIsZero(d) ==
    /\ Len(d) > 0
    /\ d[1].kind = "field_list" /\ "rfc2822" \in d[1].classes
    /\ Len(d[1].fields) > 0
    /\ Lower(d[1].fields[1].name) = N_pep
    /\ python_int(BodyText(d[1].fields[1].body)) = [ok |-> TRUE, val |-> 0]

\* C3: on a PEP-named document the pending PEPZero node is registered exactly
\* once (inserted at document position 1 and noted) when the first field's
\* value parses to 0, from the PEP-number step on, and is registered zero
\* times otherwise: for another integer, or when an earlier check fails.
C3_PendingOnce ==
    source = SRC_PEP =>
        LET n == IF FirstValueIsZero(doc0) /\ pc \in {"check_title", "fields", "done"}
                 THEN 1 ELSE 0
        IN  /\ Len(pendings) = n
            /\ PendingNodes(doc) = n
            /\ n = 1 => (doc[2] = Pending /\ doc[1].kind = "field_list")

\* apply has completed on PEP 0 with its one pending node
C3_Witness ==
    /\ pc = "done"
    /\ outcome = Returned("done")
    /\ FirstValueIsZero(doc0)
    /\ Len(pendings) = 1

IsLabel(s) == \E kind \in {KIND_LIST, KIND_MESSAGE, KIND_THREAD} : EndsWith(s, <<" ">> \o kind)

\* C4: _pretty_thread never raises: it returns a label "{ListName} {kind}"
\* or, when the text matches no recognised shape (a marker segment with too
\* few segments after it included), the text unchanged.
C4_NeverRaises ==
    upc \in {"classified", "reclassified"} =>
        /\ label.exc = "none"
        /\ label.text = text \/ IsLabel(label.text)

\* C5: an apply call on a PEP-named document completes or aborts with
\* PEPParsingError; no other kind of error escapes.
C5_OnlyStructuralErrors ==
    source = SRC_PEP => outcome.kind \in {"running", "return", "PEPParsingError"}

\* the visible text C6 expects of a reference of a discussions-to or
\* resolution field
TargetLabel(node0) ==
    IF node0.has_refuri /\ StartsWith(node0.refuri, MAIL_PREFIX)
       /\ process_list_url(node0.refuri).exc = "none"
    THEN process_list_url(node0.refuri).list_name \o <<" ">>
            \o process_list_url(node0.refuri).url_type
    ELSE node0.text

\* C6: after apply, every reference of a discussions-to or resolution field
\* whose refuri starts with "https://mail.python.org" shows the classifier's
\* label of that refuri, also when its text was not the refuri; every other
\* reference, and one whose refuri is not classified, keeps its text.
C6_ThreadTextFromTarget ==
    (source = SRC_PEP /\ pc = "done" /\ outcome = Returned("done")) =>
        \A i \in DOMAIN header.fields :
            LET f == header.fields[i]
                f0 == fields0[f.id]
            IN  (Lower(f.name) \in ThreadNames /\ f.body # <<>>) =>
                    \A j \in DOMAIN f.body[1].children :
                        f0.body[1].children[j].kind = "reference" =>
                            f.body[1].children[j].text = TargetLabel(f0.body[1].children[j])

\* the numbers of a list as C7 reads it: separated by commas and/or whitespace
RECURSIVE NumberTokensFrom(_, _)
NumberTokensFrom(s, cur) ==
    IF s = <<>> THEN <<cur>>
    ELSE IF Head(s) \in Whitespace \cup {","}
         THEN <<cur>> \o NumberTokensFrom(LStrip(s, Whitespace \cup {","}), <<>>)
    ELSE NumberTokensFrom(Tail(s), Append(cur, Head(s)))
NumberTokens(s) == NumberTokensFrom(s, <<>>)
IsNumberList(s) ==
    \A i \in DOMAIN NumberTokens(s) :
        LET tok == NumberTokens(s)[i]
        IN  tok # <<>> /\ \A j \in DOMAIN tok : IsDigit(tok[j])

\* n links, ", " between two of them, nothing after the last
RECURSIVE LinkList(_)
LinkList(tokens) ==
    IF Len(tokens) = 1
    THEN <<Reference(pep_url_format(DigitsValue(tokens[1], 0)), tokens[1])>>
    ELSE <<Reference(pep_url_format(DigitsValue(tokens[1], 0)), tokens[1]),
           TextNode(<<",", " ">>)>> \o LinkList(Tail(tokens))

\* C7: once apply has handled a replaces, superseded-by or requires field
\* whose text lists n >= 1 PEP numbers separated by commas and/or whitespace,
\* its paragraph holds n links in input order, each to the URL of its
\* number, ", " between consecutive links and nothing after the last.
C7_PepListLinks ==
    source = SRC_PEP =>
        \A k \in DOMAIN fields0 :
            LET f0 == fields0[k]
            IN  (/\ k >= 3
                 /\ Lower(f0.name) \in PepListNames
                 /\ Len(f0.body) = 1 /\ f0.body[1].kind = "paragraph"
                 /\ IsNumberList(BodyText(f0.body))
                 /\ (pc = "fields" /\ idx > k) \/ (pc = "done" /\ idx >= k))
                => FieldById(k).body[1].children = LinkList(NumberTokens(BodyText(f0.body)))

\* C8: classification is idempotent: _pretty_thread applied to the text that
\* _pretty_thread returned returns that text unchanged.
C8_Idempotent ==
    upc = "reclassified" => (label2.exc = "none" /\ label2.text = label.text)

\* a URL was turned into the label "A-SIG thread" and the label classified again
C8_Witness ==
    /\ upc = "reclassified"
    /\ text = UrlText(TRUE, <<ARCHIVES, KIND_LIST, SegSigName, KIND_THREAD>>, <<>>)
    /\ label.text = <<"A", "-", "S", "I", "G", " ", "t", "h", "r", "e", "a", "d">>
    /\ label2 = label

\* the error of the lowest-numbered check a document violates, in the
\* order 1 non-empty, 2 rfc2822 field list, 3 first field "pep", 4 integer
\* value, 6 second field "title"
ValidationError(d) ==
    IF Len(d) = 0 THEN PEPParsingError("Document tree is empty.")
    ELSE IF d[1].kind # "field_list" \/ "rfc2822" \notin d[1].classes
    THEN PEPParsingError("Document does not begin with an RFC-2822 header")
    ELSE IF Len(d[1].fields) = 0 \/ Lower(d[1].fields[1].name) # N_pep
    THEN PEPParsingError("Document does not contain an RFC-2822 'PEP' header!")
    ELSE IF ~python_int(BodyText(d[1].fields[1].body)).ok
    THEN PEPParsingError("'PEP' header must contain an integer.")
    ELSE IF Len(d[1].fields) < 2 \/ Lower(d[1].fields[2].name) # N_title
    THEN PEPParsingError("No title!")
    ELSE Running

\* C9: validation is fail-fast in the listed order: a PEP-named document
\* that violates checks ends with the error of the lowest-numbered one, and
\* no field is rewritten, marked or removed before all checks have passed.
C9_FailFast ==
    source = SRC_PEP =>
        /\ (pc = "done" /\ ValidationError(doc0) # Running) => outcome = ValidationError(doc0)
        /\ (pc \notin {"fields", "done"} \/ ValidationError(doc0) # Running) =>
              (Len(doc) > 0 => header.fields = fields0) /\ to_remove = <<>>

LoopShapeErrors ==
    {PEPParsingError("PEP header field body contains multiple elements"),
     PEPParsingError("PEP header field body may only contain a single paragraph")}

\* C10: when apply aborts on a malformed field body inside the per-field
\* loop, the header still holds every input field in the original order,
\* the last-modified/content-type/version fields met before it included.
C10_CollectThenRemove ==
    outcome \in LoopShapeErrors =>
        /\ FieldIds(header.fields) = FieldIds(fields0)
        /\ FieldNames(header.fields) = FieldNames(fields0)

\* the loop aborted after marking a field for removal and rewriting another
C10_Witness ==
    /\ outcome \in LoopShapeErrors
    /\ to_remove # <<>>
    /\ header.fields # fields0

====
